---- MODULE Spec2Model ----
(***************************************************************************)
(* Model of the video-generation job pipeline of campaign-creator: the     *)
(* two provider adapters (RunwayAgent, PikaWebAgent) and the Flask         *)
(* endpoints in app.py that call them.                                     *)
(*                                                                         *)
(* JSON / Python values are tagged records, so that a missing key, a JSON  *)
(* null, a number and a string can all be compared with each other:        *)
(*   Absent      the key is not in the dict                                *)
(*   Null        JSON null / Python None                                   *)
(*   Num(n)      a small integer                                           *)
(*   Dec(c)      the decimal number c/100 (a provider progress ratio)      *)
(*   Big(s,h,l)  the integer s * (h * 2^16 + l), for 32-bit seed values    *)
(*   Str(s)      a string                                                  *)
(*   Bool(b)     True / False                                              *)
(*   List(q)     a JSON array                                              *)
(*   [k |-> "obj", ...]  a JSON object, one record field per key          *)
(*   Msg(f, a)   the formatted string f"{f}: {a}"                          *)
(***************************************************************************)
EXTENDS Integers, Sequences, FiniteSets, TLC

VARIABLES
    calls,    \* number of outbound HTTP requests issued so far (requests.get/post)
    last,     \* the operation most recently completed: its inputs, the
              \* provider's answer, the payload sent and the value returned
    inflight, \* status requests whose GET was answered and whose response
              \* is not yet delivered (Flask serves requests concurrently)
    observed, \* the video URLs that polls have returned with status
              \* 'completed' so far (the program keeps no such record)
    issued    \* the handles submits have returned so far, each with the
              \* provider that issued it (the program keeps no such record)

vars == <<calls, last, inflight, observed, issued>>

\* ---------------------------------------------------------------- bounds
MaxCalls == 2       \* outbound requests per behaviour
MaxArtifacts == 2   \* length of a provider artifact list

\* ------------------------------------------------------- value encoding
Absent == [k |-> "absent"]
Null == [k |-> "null"]
Num(n) == [k |-> "num", v |-> n]
Dec(c) == [k |-> "dec", c |-> c]
Big(s, h, l) == [k |-> "big", sign |-> s, hi |-> h, lo |-> l]
Str(s) == [k |-> "str", v |-> s]
Bool(b) == [k |-> "bool", v |-> b]
List(q) == [k |-> "list", v |-> q]
Msg(f, a) == [k |-> "fmt", fmt |-> f, arg |-> a]

\* dict.get(key, default): the default only when the key is missing
Get(x, d) == IF x = Absent THEN d ELSE x

\* dict.get(key): None when the key is missing
GetNone(x) == Get(x, Null)

\* Python truth value of what dict.get(key) returned
Truthy(x) ==
    CASE x.k = "absent" -> FALSE
      [] x.k = "null" -> FALSE
      [] x.k = "num" -> x.v # 0
      [] x.k = "dec" -> x.c # 0
      [] x.k = "big" -> ~(x.hi = 0 /\ x.lo = 0)
      [] x.k = "str" -> x.v # ""
      [] x.k = "bool" -> x.v
      [] x.k = "list" -> Len(x.v) > 0
      [] OTHER -> TRUE

\* Python "a or b"
Or(a, b) == IF Truthy(a) THEN a ELSE b

JobIds == {"j1", "j2"}

\* ------------------------------------------------- RunwayAgent.check_status
status_map ==
    [PENDING |-> "pending", PROCESSING |-> "processing",
     SUCCEEDED |-> "completed", FAILED |-> "failed"]

\* str.lower() on the provider status strings of the model
Lower(s) ==
    CASE s = "PENDING" -> "pending"
      [] s = "PROCESSING" -> "processing"
      [] s = "SUCCEEDED" -> "succeeded"
      [] s = "FAILED" -> "failed"
      [] s = "CANCELLED" -> "cancelled"
      [] s = "Completed" -> "completed"
      [] OTHER -> s

\* status_map.get(runway_status, runway_status.lower())
MappedStatus(s) == IF s \in DOMAIN status_map THEN status_map[s] ELSE Lower(s)

\* Hundredths c in 0..200 for which the IEEE-754 double product
\* float(c/100) * 100 lies just below the integer c.
RoundedBelow == {29, 57, 58, 113, 114, 115, 116}

\* int(float(ratio) * 100) for the decimal ratio c/100: the double product,
\* truncated toward zero.
ScaledRatio(c) ==
    LET a == IF c < 0 THEN -c ELSE c
        t == IF a \in RoundedBelow THEN a - 1 ELSE a
    IN IF c < 0 THEN -t ELSE t

\* a.get('metadata', {}).get('frameRate') is truthy.  "raise" when the
\* artifact's metadata is null (None has no .get).
FrameRateOf(a) ==
    LET m == a.metadata
    IN IF m = Absent THEN Absent
       ELSE IF m = Null THEN [k |-> "raise"]
       ELSE GetNone(m.frameRate)

\* FirstVideo without the frame-rate test: the first artifact of the list
FirstVideo_AnyArtifact(arts, i) == IF i > Len(arts) THEN 0 ELSE i

\* index of the first artifact the generator of next() yields, 0 for None,
\* -1 when evaluating the condition raises before one is found
RECURSIVE FirstVideo(_, _)
FirstVideo(arts, i) ==
    IF i > Len(arts) THEN 0
    ELSE LET fr == FrameRateOf(arts[i])
         IN IF fr.k = "raise" THEN -1
            ELSE IF Truthy(fr) THEN i
            ELSE FirstVideo(arts, i + 1)

RunwayError(task_id, why) ==
    [status |-> "error", job_id |-> Str(task_id), progress |-> Absent,
     message |-> Msg("Error checking status", why), video_url |-> Absent,
     metadata |-> Absent]

\* The body of check_status after response.json() returned the dict result.
RunwayStatusResponse(task_id, result) ==
    LET runway_status == Get(result.status, Str("PENDING"))
    IN
    IF runway_status.k # "str" THEN RunwayError(task_id, "AttributeError")
    ELSE
    LET mapped_status == MappedStatus(runway_status.v)
        ratio == GetNone(result.progressRatio)
        progress ==
            IF Truthy(ratio) THEN Num(ScaledRatio(ratio.c))
            ELSE IF mapped_status = "completed" THEN Num(100)
            ELSE Num(0)
        status_response ==
            [status |-> mapped_status, job_id |-> Str(task_id),
             progress |-> progress,
             message |-> Get(result.progressText, Str("Processing video")),
             video_url |-> Absent, metadata |-> Absent]
        artifacts == Get(result.artifacts, List(<<>>))
    IN
    IF Truthy(ratio) /\ ratio.k # "dec" THEN RunwayError(task_id, "ValueError")
    ELSE IF mapped_status = "completed" THEN
        IF Truthy(artifacts) THEN
            LET i == FirstVideo(artifacts.v, 1)
            IN IF i = -1 THEN RunwayError(task_id, "AttributeError")
               ELSE IF i = 0 THEN status_response
               ELSE [status_response EXCEPT
                        !.video_url = GetNone(artifacts.v[i].url),
                        !.metadata =
                            [k |-> "obj",
                             frame_rate |-> GetNone(FrameRateOf(artifacts.v[i]))]]
        ELSE status_response
    ELSE IF mapped_status = "failed" THEN
        [status_response EXCEPT
            !.message = Msg("Generation failed",
                            Get(result.error, Str("Unknown error")))]
    ELSE status_response

\* check_status with the except branch reporting the job as failed
check_status_FaultAsFailed(task_id, t) ==
    IF t.kind = "json" THEN RunwayStatusResponse(task_id, t.body)
    ELSE [RunwayError(task_id, "RequestException") EXCEPT !.status = "failed"]

\* check_status as a whole: t is what the HTTP exchange produced.
check_status(task_id, t) ==
    CASE t.kind = "exception" -> RunwayError(task_id, "RequestException")
      [] t.kind = "http_error" -> RunwayError(task_id, "HTTPError")
      [] t.kind = "not_json" -> RunwayError(task_id, "JSONDecodeError")
      [] OTHER -> RunwayStatusResponse(task_id, t.body)

\* ------------------------------------------ PikaWebAgent.check_job_status
PikaError(job_id, f, why) ==
    [status |-> "error", job_id |-> job_id, progress |-> Absent,
     message |-> Msg(f, why), video_url |-> Absent, metadata |-> Absent]

\* result.get('videos', [{}])[0] if result.get('videos') else {}
VideosData(result) ==
    IF Truthy(GetNone(result.videos)) THEN result.videos.v[1]
    ELSE [status |-> Absent, resultUrl |-> Absent, sharingUrl |-> Absent,
          progress |-> Absent]

\* The body of check_job_status after response.json() returned the dict result.
PikaStatusData(job_id, result) ==
    LET job_data ==
            Get(result.job, [k |-> "obj", status |-> Absent, error |-> Absent])
        videos_data == VideosData(result)
    IN
    IF job_data = Null
    THEN PikaError(Str(job_id), "Error checking status", "AttributeError")
    ELSE
    LET job_status == Or(GetNone(job_data.status), GetNone(videos_data.status))
        status_data ==
            [status |-> IF Truthy(job_status) THEN job_status.v ELSE "unknown",
             job_id |-> Str(job_id), progress |-> Absent, message |-> Absent,
             video_url |-> Absent, metadata |-> Absent]
    IN
    IF job_status = Str("finished") THEN
        [status_data EXCEPT
            !.status = "completed",
            !.video_url = Or(GetNone(videos_data.resultUrl),
                             GetNone(videos_data.sharingUrl)),
            !.progress = Num(100),
            !.message = Str("Video generation completed")]
    ELSE IF job_status = Str("failed") THEN
        [status_data EXCEPT
            !.message = Msg("Generation failed",
                            Get(job_data.error, Str("Unknown error")))]
    ELSE IF job_status \in {Str("queued"), Str("processing")} THEN
        [status_data EXCEPT
            !.progress = Get(videos_data.progress, Num(0)),
            !.message = Str("Video generation in progress")]
    ELSE status_data

\* check_job_status as a whole: t is what the HTTP exchange produced.
check_job_status(job_id, t) ==
    CASE t.kind = "exception" ->
            PikaError(Str(job_id), "Error checking status", "RequestException")
      [] t.kind = "http_error" ->
            PikaError(Absent, "Status check failed", "response.text")
      [] t.kind = "not_json" ->
            PikaError(Str(job_id), "Error checking status", "JSONDecodeError")
      [] OTHER -> PikaStatusData(job_id, t.body)

\* ------------------------------------------- RunwayAgent.generate_video
\* min(10, x): the lower limit left out
Clamp_UpperOnly(x) == IF x < 10 THEN x ELSE 10

\* max(-10, min(10, x))
Clamp(x) ==
    LET m == IF x < 10 THEN x ELSE 10
    IN IF m > -10 THEN m ELSE -10

\* one motion control: payload[param] = max(-10, min(10, data[param])) if
\* data.get(param) is not None, no key otherwise
Motion(x) == IF GetNone(x) # Null THEN Num(Clamp(x.v)) ELSE Absent

\* The payload generate_video builds from the request dict data: four keys
\* with defaults, the optional keys only when truthy, the motion controls
\* only when not None, clamped.
RunwayPayload(data) ==
    [text_prompt |-> Get(data.text_prompt, Str("")),
     aspect_ratio |-> Get(data.aspect_ratio, Str("landscape")),
     seconds |-> Get(data.seconds, Num(5)),
     exploreMode |-> Get(data.exploreMode, Bool(FALSE)),
     firstImage_assetId |->
        IF Truthy(data.firstImage_assetId) THEN data.firstImage_assetId
        ELSE Absent,
     lastImage_assetId |->
        IF Truthy(data.lastImage_assetId) THEN data.lastImage_assetId
        ELSE Absent,
     seed |-> IF Truthy(data.seed) THEN data.seed ELSE Absent,
     horizontal |-> Motion(data.horizontal),
     vertical |-> Motion(data.vertical),
     roll |-> Motion(data.roll),
     zoom |-> Motion(data.zoom),
     pan |-> Motion(data.pan),
     tilt |-> Motion(data.tilt)]

\* building the payload raises: max(-10, min(10, x)) of a value that is
\* not a number is a TypeError
PayloadRaises(data) ==
    \E x \in {data.horizontal, data.vertical, data.roll, data.zoom, data.pan,
              data.tilt} : GetNone(x) # Null /\ x.k # "num"

\* the except clause lets the exception go on to the caller
SubmitError_Reraised(f, why) ==
    [status |-> "raised", job_id |-> Absent, message |-> Absent,
     progress |-> Absent]

\* except Exception as e: the value generate_video returns instead
SubmitError(f, why) ==
    [status |-> "error", job_id |-> Absent, message |-> Msg(f, why),
     progress |-> Absent]

Started(job_id, progress) ==
    [status |-> "pending", job_id |-> job_id,
     message |-> Str("Video generation started"), progress |-> progress]

\* What generate_video returns once the POST produced t.
RunwayStarted(t) ==
    CASE t.kind = "exception" ->
            SubmitError("Error starting video generation", "RequestException")
      [] t.kind = "http_error" ->
            SubmitError("Error starting video generation", "HTTPError")
      [] t.kind = "not_json" ->
            SubmitError("Error starting video generation", "JSONDecodeError")
      [] OTHER ->
            LET task_id == GetNone(t.body.taskId)
            IN IF ~Truthy(task_id)
               THEN SubmitError("Error starting video generation",
                                "No taskId received from Runway API")
               ELSE Started(task_id, Num(0))

\* ----------------------------------------- PikaWebAgent.generate_video
DefaultCamera ==
    [k |-> "obj", pan |-> Str("none"), tilt |-> Str("none"),
     rotate |-> Str("none"), zoom |-> Str("none")]

NoParameters ==
    [k |-> "obj", motion |-> Absent, guidanceScale |-> Absent,
     negativePrompt |-> Absent, seed |-> Absent]

NoOptions ==
    [k |-> "obj", aspectRatio |-> Absent, frameRate |-> Absent,
     camera |-> Absent, parameters |-> Absent, extend |-> Absent]

\* app.generate_video: the request dict handed to the adapter, the defaults
\* of video_request['options'] overwritten key by key by data['options'].
VideoRequest(data) ==
    LET given == Get(data.options, NoOptions)
    IN [promptText |-> Get(data.promptText, Str("")),
        model |-> Get(data.model, Str("1.5")),
        pikaffect |-> GetNone(data.pikaffect),
        options |->
            [k |-> "obj",
             aspectRatio |-> Get(given.aspectRatio, Str("5:2")),
             frameRate |-> Get(given.frameRate, Num(24)),
             camera |-> Get(given.camera, DefaultCamera),
             parameters |->
                Get(given.parameters,
                    [k |-> "obj", motion |-> Num(1), guidanceScale |-> Num(12),
                     negativePrompt |-> Str(""), seed |-> Null]),
             extend |-> Get(given.extend, Bool(FALSE))]]

\* the payload with the frame rate written in as a fixed value
PikaPayload_FixedFrameRate(data) ==
    LET pika_effect == GetNone(data.pikaffect)
        transcript == Get(data.promptText, Str(""))
        user_options == Get(data.options, NoOptions)
        parameters == Get(user_options.parameters, NoParameters)
    IN [promptText |->
            IF Truthy(pika_effect) THEN Msg(pika_effect.v, transcript)
            ELSE transcript,
        model |-> Get(data.model, Str("1.5")),
        pikaffect |-> pika_effect,
        options |->
            [aspectRatio |-> Get(user_options.aspectRatio, Str("5:2")),
             frameRate |-> Num(24),
             camera |-> Get(user_options.camera, DefaultCamera),
             parameters |->
                [motion |-> Get(parameters.motion, Num(1)),
                 guidanceScale |-> Get(parameters.guidanceScale, Num(12)),
                 negativePrompt |-> Get(parameters.negativePrompt, Str("")),
                 seed |-> GetNone(parameters.seed)],
             extend |-> Get(user_options.extend, Bool(FALSE))]]

\* The payload PikaWebAgent.generate_video builds from the dict it is given.
PikaPayload(data) ==
    LET pika_effect == GetNone(data.pikaffect)
        transcript == Get(data.promptText, Str(""))
        user_options == Get(data.options, NoOptions)
        parameters == Get(user_options.parameters, NoParameters)
    IN [promptText |->
            IF Truthy(pika_effect) THEN Msg(pika_effect.v, transcript)
            ELSE transcript,
        model |-> Get(data.model, Str("1.5")),
        pikaffect |-> pika_effect,
        options |->
            [aspectRatio |-> Get(user_options.aspectRatio, Str("5:2")),
             frameRate |-> Get(user_options.frameRate, Num(24)),
             camera |-> Get(user_options.camera, DefaultCamera),
             parameters |->
                [motion |-> Get(parameters.motion, Num(1)),
                 guidanceScale |-> Get(parameters.guidanceScale, Num(12)),
                 negativePrompt |-> Get(parameters.negativePrompt, Str("")),
                 seed |-> GetNone(parameters.seed)],
             extend |-> Get(user_options.extend, Bool(FALSE))]]

\* result.get('job', {}).get('id') or result.get('video', {}).get('jobId')
\* or result.get('jobId')
\* 'or' evaluates left to right and stops at the first truthy operand; .get
\* on a JSON null (None) raises AttributeError.
PikaJobId(result) ==
    LET job == Get(result.job, [k |-> "obj", id |-> Absent])
        video == Get(result.video, [k |-> "obj", jobId |-> Absent])
    IN IF job = Null THEN [k |-> "raise"]
       ELSE IF Truthy(GetNone(job.id)) THEN job.id
       ELSE IF video = Null THEN [k |-> "raise"]
       ELSE Or(GetNone(video.jobId), GetNone(result.jobId))

\* What generate_video returns once the POST produced t.
PikaStarted(t) ==
    CASE t.kind = "exception" ->
            SubmitError("Error starting video generation", "RequestException")
      [] t.kind = "http_error" -> SubmitError("API Error", "response.text")
      [] t.kind = "not_json" ->
            SubmitError("Error starting video generation", "JSONDecodeError")
      [] OTHER ->
            LET job_id == PikaJobId(t.body)
            IN IF job_id.k = "raise"
               THEN SubmitError("Error starting video generation",
                                "AttributeError")
               ELSE IF Truthy(job_id) THEN Started(job_id, Absent)
               ELSE SubmitError("Error starting video generation",
                                "Invalid API response format")

\* ------------------------------------------- what the provider may answer
\* requests raised / a non-2xx status line / a 200 whose body is not JSON
Faults ==
    { [kind |-> "exception", code |-> 0, body |-> Absent],
      [kind |-> "http_error", code |-> 500, body |-> Absent],
      [kind |-> "not_json", code |-> 200, body |-> Absent] }

Json(b) == [kind |-> "json", code |-> 200, body |-> b]

FrameRates == {Absent, Num(0), Num(24)}

Metadatas ==
    {Absent} \cup { [k |-> "obj", frameRate |-> f] : f \in FrameRates }

\* the artifact in position i of a list carries the URL u<i>
UrlAt(i) == Str(IF i = 1 THEN "u1" ELSE IF i = 2 THEN "u2" ELSE "u3")

RECURSIVE ArtifactLists(_)
ArtifactLists(n) ==
    IF n = 0 THEN {<<>>}
    ELSE LET shorter == ArtifactLists(n - 1)
         IN shorter \cup
            { Append(q, [url |-> UrlAt(n), metadata |-> m]) :
                q \in {s \in shorter : Len(s) = n - 1}, m \in Metadatas }

Ratios == {Absent, Dec(0), Dec(29), Dec(42), Dec(100)}

RunwayResult(s, r, a, e) ==
    [status |-> s, progressRatio |-> r, progressText |-> Absent,
     artifacts |-> a, error |-> e]

OneVideo == List(<<[url |-> UrlAt(1), metadata |-> [k |-> "obj", frameRate |-> Num(24)]]>>)

\* Artifacts are read only when the mapped status is 'completed' and the
\* error text only when it is 'failed'; the other fields vary with every status.
RunwayResults ==
    { RunwayResult(s, r, a, Absent) :
        s \in {Absent, Null, Str("PENDING"), Str("PROCESSING"), Str("CANCELLED")},
        r \in Ratios, a \in {Absent, OneVideo} }
    \cup
    { RunwayResult(s, r, a, Absent) :
        s \in {Str("SUCCEEDED"), Str("Completed")},
        r \in {Absent, Dec(0), Dec(42)},
        a \in {Absent} \cup { List(q) : q \in ArtifactLists(MaxArtifacts) } }
    \cup
    { RunwayResult(Str("FAILED"), r, Absent, e) :
        r \in {Absent, Dec(42)}, e \in {Absent, Str("boom")} }

RunwayPollAnswers == Faults \cup { Json(b) : b \in RunwayResults }

PikaVideo(s, r, sh, p) ==
    [status |-> s, resultUrl |-> r, sharingUrl |-> sh, progress |-> p]

PikaJob(s, e) == [k |-> "obj", status |-> s, error |-> e]

PikaResult(j, v) == [job |-> j, videos |-> v]

PikaResults ==
    \* no job object, or a null one, with or without a video entry
    { PikaResult(j, v) :
        j \in {Absent, Null},
        v \in {Absent, List(<<>>)} \cup
              { List(<<PikaVideo(s, Str("u1"), Absent, p)>>) :
                    s \in {Absent, Str("finished"), Str("processing")},
                    p \in {Absent, Num(50)} } }
    \cup
    \* a finished job: which URL fields the video entry carries
    { PikaResult(PikaJob(Str("finished"), Absent), v) :
        v \in {Absent, List(<<>>)} \cup
              { List(<<PikaVideo(Absent, r, sh, Num(100))>>) :
                    r \in {Absent, Null, Str("u1")}, sh \in {Absent, Str("u2")} } }
    \cup
    \* a job in progress, or in a state the adapter has no case for
    { PikaResult(PikaJob(s, Absent), v) :
        s \in {Absent, Str("queued"), Str("processing"), Str("pending"),
               Str("cancelled")},
        v \in {Absent} \cup
              { List(<<PikaVideo(Absent, Absent, Absent, p)>>) :
                    p \in {Absent, Null, Num(0), Num(50), Num(100)} } }
    \cup
    \* a failed job, with or without an error text
    { PikaResult(PikaJob(Str("failed"), e), Absent) : e \in {Absent, Str("boom")} }

PikaPollAnswers == Faults \cup { Json(b) : b \in PikaResults }

\* ----------------------------------------------------------------- state
\* http is the status code of the Flask response, 0 when the adapter method
\* is called directly
NoOp ==
    [op |-> "none", provider |-> "none", job |-> "none", request |-> Absent,
     sent |-> Absent, answer |-> Absent, result |-> Absent, http |-> 0]

Init ==
    /\ calls = 0
    /\ last = NoOp
    /\ inflight = {}
    /\ observed = {}
    /\ issued = {}

\* the handles issued so far, after a submit through provider returned
\* result
Issue(provider, result) ==
    IF result.status = "pending"
    THEN issued \cup {<<provider, result.job_id.v>>}
    ELSE issued

\* the URLs seen so far, after a poll returned result
Observe(result) ==
    IF result.status = "completed" /\ result.video_url.k = "str"
    THEN observed \cup {result.video_url.v}
    ELSE observed

\* RunwayAgent.check_status(task_id): one GET, then the normalisation.
RunwayCheckStatusOn(answers) ==
    \E j \in JobIds, t \in answers :
        LET result == check_status(j, t)
        IN /\ calls < MaxCalls
           /\ calls' = calls + 1
           /\ last' = [op |-> "poll", provider |-> "runway", job |-> j,
                       request |-> Absent, sent |-> Absent, answer |-> t,
                       result |-> result, http |-> 0]
           /\ observed' = Observe(result)
           /\ UNCHANGED <<inflight, issued>>

RunwayCheckStatus == RunwayCheckStatusOn(RunwayPollAnswers)

\* GET /api/video-status/<job_id>: get_video_status hands every job id to
\* pika_agent.check_job_status (one GET) and returns its value with HTTP 200.
GetVideoStatusOn(answers) ==
    \E j \in JobIds, t \in answers :
        LET result == check_job_status(j, t)
        IN /\ calls < MaxCalls
           /\ calls' = calls + 1
           /\ last' = [op |-> "poll", provider |-> "pika", job |-> j,
                       request |-> Absent, sent |-> Absent, answer |-> t,
                       result |-> result, http |-> 200]
           /\ observed' = Observe(result)
           /\ UNCHANGED <<inflight, issued>>

GetVideoStatus == GetVideoStatusOn(PikaPollAnswers)

NextPoll ==
    \/ RunwayCheckStatus
    \/ GetVideoStatus

PollSpec == Init /\ [][NextPoll]_vars

\* --------------------------------------------------------------- submit
\* seed values around the legal range 1..4294967294 = 65535 * 2^16 + 65534
Seeds ==
    {Absent, Big(1, 0, 0), Big(-1, 0, 1), Big(1, 0, 1), Big(1, 65535, 65534),
     Big(1, 65535, 65535)}

RunwayRequest(sec, sd, z, pn) ==
    [text_prompt |-> Str("A cat on a skateboard"), aspect_ratio |-> Absent,
     seconds |-> sec, exploreMode |-> Absent, firstImage_assetId |-> Absent,
     lastImage_assetId |-> Absent, seed |-> sd, horizontal |-> Absent,
     vertical |-> Absent, roll |-> Absent, zoom |-> z, pan |-> pn,
     tilt |-> Absent]

RunwayRequests ==
    { RunwayRequest(sec, sd, z, Absent) :
        sec \in {Absent, Num(5), Num(7), Num(10)}, sd \in Seeds,
        z \in {Absent, Num(0), Num(15)} }

RunwaySubmitAnswers ==
    Faults \cup { Json([taskId |-> i]) : i \in {Absent, Str(""), Str("j1")} }

PikaRequests ==
    { [promptText |-> Str("A cat on a skateboard"), model |-> Absent,
       pikaffect |-> fx, options |-> o] :
        fx \in {Absent, Str("Melt")},
        o \in {Absent} \cup
              { [NoOptions EXCEPT !.parameters = [NoParameters EXCEPT !.seed = sd]] :
                    sd \in Seeds } }

PikaSubmitAnswers ==
    Faults \cup
    { Json([job |-> j, video |-> v, jobId |-> i]) :
        j \in {Absent, Null, [k |-> "obj", id |-> Str("j1")]},
        v \in {Absent, Null, [k |-> "obj", jobId |-> Str("j2")]},
        i \in {Absent, Str("j2")} }

\* POST /api/runway/generate-video: generate_video_runway hands the request
\* body to runway_agent.generate_video, which builds the payload, posts it
\* once and reads the task id; an 'error' result is answered with HTTP 500.
\* A null body makes data.get raise, a motion value that is not a number
\* makes min() raise, both before the POST.
GenerateVideoRunwayOn(requests, answers) ==
    \E data \in requests, t \in answers :
        LET posted == data # Null /\ ~PayloadRaises(data)
            result ==
                IF posted THEN RunwayStarted(t)
                ELSE SubmitError("Error starting video generation",
                                 IF data = Null THEN "AttributeError"
                                 ELSE "TypeError")
        IN /\ calls < MaxCalls
           /\ calls' = IF posted THEN calls + 1 ELSE calls
           /\ last' = [op |-> "submit", provider |-> "runway", job |-> "none",
                       request |-> data,
                       sent |-> IF posted THEN RunwayPayload(data) ELSE Absent,
                       answer |-> IF posted THEN t ELSE Absent,
                       result |-> result,
                       http |-> IF result.status = "error" THEN 500 ELSE 200]
           /\ issued' = Issue("runway", result)
           /\ UNCHANGED <<inflight, observed>>

GenerateVideoRunway ==
    GenerateVideoRunwayOn(RunwayRequests \cup {Null}, RunwaySubmitAnswers)

\* POST /api/generate-video: generate_video answers an empty body with HTTP
\* 400; otherwise it merges the caller's options into the defaults and
\* hands the request to pika_agent.generate_video, which builds the
\* payload, posts it once and extracts the job id; an 'error' result is
\* answered with HTTP 500.
GenerateVideoOn(requests, answers) ==
    \E data \in requests, t \in answers :
        LET posted == data # Null
            result ==
                IF posted THEN PikaStarted(t)
                ELSE [status |-> "error", job_id |-> Absent,
                      message |-> Str("No data provided"), progress |-> Absent]
        IN /\ calls < MaxCalls
           /\ calls' = IF posted THEN calls + 1 ELSE calls
           /\ last' = [op |-> "submit", provider |-> "pika", job |-> "none",
                       request |-> data,
                       sent |-> IF posted THEN PikaPayload(VideoRequest(data))
                                ELSE Absent,
                       answer |-> IF posted THEN t ELSE Absent,
                       result |-> result,
                       http |-> IF ~posted THEN 400
                                ELSE IF result.status = "error" THEN 500
                                ELSE 200]
           /\ issued' = Issue("pika", result)
           /\ UNCHANGED <<inflight, observed>>

GenerateVideo == GenerateVideoOn(PikaRequests \cup {Null}, PikaSubmitAnswers)

NextSubmit ==
    \/ GenerateVideoRunway
    \/ GenerateVideo

SubmitSpec == Init /\ [][NextSubmit]_vars


\* ------------------------------------------------------- poll properties
IsPoll == last.op = "poll"

Terminal(st) == st \in {"completed", "failed", "error"}

NonEmptyUrl(u) == u.k = "str" /\ u.v # ""

\* the provider's native status in the answer, Absent when there is none
ProviderStatus ==
    IF last.answer.kind # "json" THEN Absent
    ELSE IF last.provider = "runway" THEN last.answer.body.status
    ELSE LET r == last.answer.body
         IN IF r.job \in {Absent, Null} THEN Absent ELSE r.job.status

\* the provider reports the job as done successfully
ProviderSucceeded ==
    \/ last.provider = "runway" /\ ProviderStatus = Str("SUCCEEDED")
    \/ last.provider = "pika" /\ ProviderStatus = Str("finished")

\* the artifact carries a frame rate: a metadata object whose frameRate is a
\* number other than 0
DeclaresFrameRate(a) ==
    /\ a.metadata \notin {Absent, Null}
    /\ a.metadata.frameRate \notin {Absent, Null, Num(0)}

\* the answer of a successful job holds something that qualifies as a video
SuppliesVideo ==
    LET r == last.answer.body
    IN IF last.provider = "runway"
       THEN /\ r.artifacts.k = "list"
            /\ \E i \in 1..Len(r.artifacts.v) :
                   /\ DeclaresFrameRate(r.artifacts.v[i])
                   /\ NonEmptyUrl(r.artifacts.v[i].url)
       ELSE /\ r.videos.k = "list"
            /\ Len(r.videos.v) > 0
            /\ \/ NonEmptyUrl(r.videos.v[1].resultUrl)
               \/ NonEmptyUrl(r.videos.v[1].sharingUrl)

\* C1: every poll result with status 'completed' carries a non-empty
\* video_url, and a provider success without a qualifying video artifact is
\* returned as 'error'.
C1_CompletedHasVideoUrl ==
    IsPoll =>
        /\ last.result.status = "completed" => NonEmptyUrl(last.result.video_url)
        /\ (ProviderSucceeded /\ ~SuppliesVideo) => last.result.status = "error"

\* C2: once a poll of a handle returned a terminal status, the next status
\* request for the same handle returns the identical status and issues no
\* outbound call.
C2_TerminalAbsorbing ==
    [][ ( /\ IsPoll
          /\ Terminal(last.result.status)
          /\ last'.op = "poll"
          /\ last'.provider = last.provider
          /\ last'.job = last.job )
        => (last'.result = last.result /\ calls' = calls) ]_vars

\* the progress the provider reports in the answer: the Runway ratio in
\* hundredths, the Pika percentage; -1 when it reports none
ReportedProgress(op) ==
    IF op.answer.kind # "json" THEN -1
    ELSE IF op.provider = "runway"
         THEN (IF op.answer.body.progressRatio.k = "dec"
               THEN op.answer.body.progressRatio.c ELSE -1)
         ELSE LET v == op.answer.body.videos
              IN IF v.k = "list" /\ Len(v.v) > 0 /\ v.v[1].progress.k = "num"
                 THEN v.v[1].progress.v ELSE -1

\* the progress of a returned status as a number, -1 when it has none
ReturnedProgress(op) ==
    IF op.result.progress.k = "num" THEN op.result.progress.v ELSE -1

\* C6: over consecutive polls of one handle with non-decreasing provider
\* progress the returned progress does not decrease, and a returned status
\* has progress 100 exactly when its status is 'completed'.
C6_MonotonicProgress ==
    [][ /\ ( /\ IsPoll
             /\ last'.op = "poll"
             /\ last'.provider = last.provider
             /\ last'.job = last.job
             /\ ReportedProgress(last) >= 0
             /\ ReportedProgress(last') >= ReportedProgress(last) )
           => ReturnedProgress(last') >= ReturnedProgress(last)
        /\ last'.op = "poll"
           => (ReturnedProgress(last') = 100 <=> last'.result.status = "completed")
      ]_vars

NormalizedStates == {"pending", "processing", "completed", "failed", "error"}

\* the fixed table of the specification, over the provider status strings
NormalizedByTable(s) ==
    CASE s = Str("PENDING") -> "pending"
      [] s = Str("PROCESSING") -> "processing"
      [] s = Str("SUCCEEDED") -> "completed"
      [] s = Str("FAILED") -> "failed"
      [] OTHER -> "pending"

\* C7: a poll returns one of the five normalized states; a Runway status is
\* mapped by the fixed table and a status outside the table, or a missing
\* one, gives 'pending'.
C7_FixedStatusTable ==
    IsPoll =>
        /\ last.result.status \in NormalizedStates
        /\ (last.provider = "runway" /\ last.answer.kind = "json"
                /\ last.answer.body.status.k \in {"str", "absent"}
                /\ last.result.status # "error")
           => last.result.status = NormalizedByTable(ProviderStatus)

\* C8: with a progress ratio r in the Runway answer the returned progress is
\* floor(r * 100); without one it is 100 for 'completed' and 0 otherwise.
C8_ProgressFromRatio ==
    (IsPoll /\ last.provider = "runway" /\ last.answer.kind = "json"
        /\ last.result.status # "error")
    => LET r == last.answer.body.progressRatio
       IN /\ r.k = "dec" => last.result.progress = Num(r.c)
          /\ r = Absent =>
                last.result.progress =
                    Num(IF last.result.status = "completed" THEN 100 ELSE 0)

\* the positions of the artifacts that declare a frame rate
VideoPositions(arts) == { i \in 1..Len(arts) : DeclaresFrameRate(arts[i]) }

ProviderFailed ==
    \/ last.provider = "runway" /\ ProviderStatus = Str("FAILED")
    \/ last.provider = "pika" /\ ProviderStatus = Str("failed")

\* the error text of the provider's failure report
ProviderErrorText ==
    IF last.provider = "runway" THEN last.answer.body.error
    ELSE last.answer.body.job.error

\* C10: a poll whose answer reports the generation as failed returns
\* 'failed' with the provider's error text in the message; a transport
\* failure, a non-success HTTP status or an unparsable body returns 'error';
\* neither is reported as the other.
C10_FailedVersusError ==
    IsPoll =>
        /\ ProviderFailed =>
            /\ last.result.status = "failed"
            /\ last.result.message.k = "fmt"
            /\ last.result.message.fmt = "Generation failed"
            /\ ProviderErrorText # Absent
                => last.result.message.arg = ProviderErrorText
        /\ last.answer.kind # "json" => last.result.status = "error"
        /\ last.result.status = "failed" => ProviderFailed
        /\ last.result.status = "error" => ~ProviderFailed

C10_Witness ==
    /\ IsPoll /\ last.provider = "pika" /\ ProviderFailed
    /\ last.result.status = "failed"
    /\ last.result.message = Msg("Generation failed", Str("boom"))

\* ----------------------------------------------------- submit properties
SeedZero == Big(1, 0, 0)

\* the seed of a submit request, Absent when it carries none
RequestSeed(op) ==
    IF op.request = Null THEN Absent
    ELSE IF op.provider = "runway" THEN op.request.seed
    ELSE IF op.request.options = Absent THEN Absent
    ELSE IF op.request.options.parameters = Absent THEN Absent
    ELSE op.request.options.parameters.seed

\* the seed in the payload that was posted, Absent when there is none
SentSeed(op) ==
    IF op.sent = Absent THEN Absent
    ELSE IF op.provider = "runway" THEN op.sent.seed
    ELSE op.sent.options.parameters.seed

\* 1 <= seed <= 4294967294
SeedInRange(sd) ==
    /\ sd.sign = 1
    /\ sd.hi > 0 \/ sd.lo >= 1
    /\ sd.hi < 65535 \/ sd.lo <= 65534

\* C3: a submit with seed = 0 is rejected before any network call: the call
\* count does not change and no job handle is returned.
C3_SeedZeroRejected ==
    [][ (last'.op = "submit" /\ RequestSeed(last') = SeedZero)
        => /\ calls' = calls
           /\ last'.result.status = "error"
           /\ last'.result.job_id = Absent ]_vars

\* C4: the payload posted for a request whose seed is outside
\* 1..4294967294 never contains that seed.
C4_SeedOutOfRangeNotSent ==
    (last.op = "submit" /\ last.sent # Absent /\ RequestSeed(last).k = "big"
        /\ ~SeedInRange(RequestSeed(last)))
    => SentSeed(last) # RequestSeed(last)

AllowedSeconds == {Num(5), Num(10)}

\* C5: the duration posted to Runway is the caller's when it is 5 or 10 and
\* the default 5 otherwise.
C5_DurationCoerced ==
    (last.op = "submit" /\ last.provider = "runway" /\ last.sent # Absent)
    => last.sent.seconds =
          (IF last.request.seconds \in AllowedSeconds
           THEN last.request.seconds ELSE Num(5))

\* ====================================================== Runway assets
\* A content type is 'type/subtype'; the route tests
\* content_type.startswith('image/').
ContentType(type, subtype) == [type |-> type, subtype |-> subtype]

IsImage(content_type) == content_type.type = "image"

AssetError(f, why) ==
    [status |-> "error", message |-> Msg(f, why), asset_id |-> Absent,
     url |-> Absent, assets |-> Absent]

\* RunwayAgent.upload_asset once the multipart POST produced t: the method
\* posts whatever content type it is given.
upload_asset(content_type, t) ==
    CASE t.kind = "exception" ->
            AssetError("Error uploading asset", "RequestException")
      [] t.kind = "http_error" -> AssetError("Upload failed", "HTTPError")
      [] t.kind = "not_json" ->
            AssetError("Error uploading asset", "JSONDecodeError")
      [] OTHER ->
            [status |-> "success", message |-> Absent,
             asset_id |-> GetNone(t.body.assetId), url |-> GetNone(t.body.url),
             assets |-> Absent]

\* RunwayAgent.get_assets once the GET produced t.
get_assets(t) ==
    CASE t.kind = "exception" -> AssetError("Request failed", "RequestException")
      [] t.kind = "http_error" ->
            AssetError("API returned status code", "status_code")
      [] t.kind = "not_json" ->
            AssetError("Invalid JSON response", "JSONDecodeError")
      [] OTHER ->
            [status |-> "success", message |-> Absent, asset_id |-> Absent,
             url |-> Absent, assets |-> t.body]

ContentTypes ==
    { ContentType("image", "png"), ContentType("image", "jpeg"),
      ContentType("video", "mp4"), ContentType("text", "plain") }

\* the multipart form of an upload request: no 'file' part, an empty file
\* name, or a named file of some content type
Uploads ==
    { [file |-> Absent, filename |-> "", content_type |-> Absent] } \cup
    { [file |-> Str("bytes"), filename |-> n, content_type |-> c] :
        n \in {"", "a.png"}, c \in ContentTypes }

UploadAnswers ==
    Faults \cup
    { Json([assetId |-> a, url |-> u]) :
        a \in {Absent, Str("a1"), Str("a2")},
        u \in {Absent, Str("asset-url")} }

ListAnswers ==
    Faults \cup
    { Json(List(<<>>)), Json(List(<<Str("a1")>>)),
      Json(List(<<Str("a1"), Str("a2")>>)) }

\* the query string's offset: missing, a number, or not a number (int()
\* raises ValueError)
Offsets == {Absent, Str("0"), Str("50"), Str("abc")}

\* runway_agent.upload_asset(file_data, file_name, content_type): one POST.
RunwayUploadAsset ==
    \E c \in ContentTypes, t \in UploadAnswers :
        /\ calls < MaxCalls
        /\ calls' = calls + 1
        /\ last' = [op |-> "upload", provider |-> "runway", job |-> "none",
                    request |-> [file |-> Str("bytes"), filename |-> "a.png",
                                 content_type |-> c],
                    sent |-> c, answer |-> t, result |-> upload_asset(c, t),
                    http |-> 0]
        /\ UNCHANGED <<inflight, observed, issued>>

\* POST /api/runway/assets/upload: upload_runway_asset answers a request
\* without a file, with an empty file name or with a content type outside
\* image/ with HTTP 400; otherwise it calls runway_agent.upload_asset and
\* returns its value with HTTP 200.
UploadRunwayAsset ==
    \E u \in Uploads, t \in UploadAnswers :
        LET why ==
                IF u.file = Absent THEN "No file provided"
                ELSE IF u.filename = "" THEN "No file selected"
                ELSE IF ~IsImage(u.content_type)
                     THEN "Only image files are allowed"
                ELSE ""
            posted == why = ""
        IN /\ calls < MaxCalls
           /\ calls' = IF posted THEN calls + 1 ELSE calls
           /\ last' = [op |-> "upload", provider |-> "runway", job |-> "none",
                       request |-> u,
                       sent |-> IF posted THEN u.content_type ELSE Absent,
                       answer |-> IF posted THEN t ELSE Absent,
                       result |-> IF posted THEN upload_asset(u.content_type, t)
                                  ELSE [AssetError("", "") EXCEPT
                                            !.message = Str(why)],
                       http |-> IF posted THEN 200 ELSE 400]
           /\ UNCHANGED <<inflight, observed, issued>>

\* GET /api/runway/assets: get_runway_assets parses offset and limit with
\* int(), calls runway_agent.get_assets (one GET) and answers an 'error'
\* result, or an exception of its own, with HTTP 500.
GetRunwayAssets ==
    \E offset \in Offsets, t \in ListAnswers :
        LET posted == offset # Str("abc")
            result == IF posted THEN get_assets(t)
                      ELSE [AssetError("", "") EXCEPT
                                !.message = Str("ValueError")]
        IN /\ calls < MaxCalls
           /\ calls' = IF posted THEN calls + 1 ELSE calls
           /\ last' = [op |-> "list", provider |-> "runway", job |-> "none",
                       request |-> offset,
                       sent |-> IF posted THEN Get(offset, Str("0"))
                                ELSE Absent,
                       answer |-> IF posted THEN t ELSE Absent,
                       result |-> result,
                       http |-> IF result.status = "error" THEN 500 ELSE 200]
           /\ UNCHANGED <<inflight, observed, issued>>

NextAsset ==
    \/ RunwayUploadAsset
    \/ UploadRunwayAsset
    \/ GetRunwayAssets

AssetSpec == Init /\ [][NextAsset]_vars

\* ===================================================== faulty exchanges
\* Requests and provider answers that make the adapters fail: a null body,
\* a motion value that is not a number, a null or numeric provider status,
\* a null 'job' object, besides the transport faults.
FaultyRunwayRequests ==
    {Null} \cup
    { RunwayRequest(Absent, Absent, z, pn) :
        z \in {Absent, Num(15), Str("fast")},
        pn \in {Absent, Num(-3), Str("left")} }

FaultyRunwayPollAnswers ==
    Faults \cup
    { Json([status |-> st, progressRatio |-> Absent, progressText |-> Absent,
            artifacts |-> Absent, error |-> Absent]) :
        st \in {Absent, Null, Num(5), Str("RUNNING"), Str("FAILED")} }

FaultyPikaPollAnswers ==
    Faults \cup
    { Json([job |-> j, videos |-> Absent]) :
        j \in {Absent, Null}
              \cup { [k |-> "obj", status |-> st, error |-> Absent] :
                        st \in {Absent, Null, Str("processing")} } }

FaultyRunwaySubmit ==
    GenerateVideoRunwayOn(FaultyRunwayRequests, RunwaySubmitAnswers)

FaultyPikaSubmit ==
    GenerateVideoOn({Null, [promptText |-> Str("A cat on a skateboard"),
                            model |-> Absent, pikaffect |-> Absent,
                            options |-> Absent]},
                    PikaSubmitAnswers)

FaultyRunwayPoll == RunwayCheckStatusOn(FaultyRunwayPollAnswers)

FaultyPikaPoll == GetVideoStatusOn(FaultyPikaPollAnswers)

NextFault ==
    \/ FaultyRunwaySubmit
    \/ FaultyPikaSubmit
    \/ FaultyRunwayPoll
    \/ FaultyPikaPoll
    \/ RunwayUploadAsset
    \/ GetRunwayAssets

FaultSpec == Init /\ [][NextFault]_vars

\* the exchange of the last operation failed: the transport raised, the
\* provider answered outside 2xx or with a body that is not JSON, or the
\* input was one the adapter cannot process
Faulted ==
    \/ last.answer # Absent /\ last.answer.kind # "json"
    \/ last.op = "submit" /\ last.request = Null
    \/ last.op = "submit" /\ last.provider = "runway" /\ last.request # Null
       /\ PayloadRaises(last.request)
    \/ last.op = "poll" /\ last.provider = "runway" /\ last.answer.kind = "json"
       /\ last.answer.body.status \notin {Absent}
       /\ last.answer.body.status.k # "str"
    \/ last.op \in {"submit", "poll"} /\ last.provider = "pika"
       /\ last.answer # Absent /\ last.answer.kind = "json"
       /\ last.answer.body.job = Null
    \/ last.op = "list" /\ last.request = Str("abc")

HasMessage(result) == result.message # Absent /\ result.message # Null

IdIn(x, f) == IF x.k = "obj" /\ Truthy(GetNone(x[f])) THEN x[f] ELSE Absent

\* the first identifier the provider's answer holds, in the documented
\* order: taskId for Runway; job.id, video.jobId, jobId for Pika
FirstIdentifier ==
    LET body == last.answer.body
    IN IF last.provider = "runway"
       THEN IF Truthy(GetNone(body.taskId)) THEN body.taskId ELSE Absent
       ELSE IF IdIn(body.job, "id") # Absent THEN IdIn(body.job, "id")
       ELSE IF IdIn(body.video, "jobId") # Absent THEN IdIn(body.video, "jobId")
       ELSE IF Truthy(GetNone(body.jobId)) THEN body.jobId
       ELSE Absent

\* C12: a submit whose response holds no job identifier (Runway: no or an
\* empty taskId; Pika: none of job.id, video.jobId, jobId present and
\* non-empty) returns an error and no handle; when an identifier can be
\* extracted, the first one in that order is returned with status 'pending'.
C12_FirstIdentifierOrError ==
    (last.op = "submit" /\ last.answer # Absent /\ last.answer.kind = "json") =>
        IF FirstIdentifier = Absent
        THEN last.result.status = "error" /\ last.result.job_id = Absent
        ELSE last.result.status = "pending"
             /\ last.result.job_id = FirstIdentifier

\* ============================================================ reprompt
\* result.get('job', {}).get('id') or result.get('video', {}).get('jobId'):
\* the top-level jobId is not consulted
RepromptJobId(result) ==
    LET job == Get(result.job, [k |-> "obj", id |-> Absent])
        video == Get(result.video, [k |-> "obj", jobId |-> Absent])
    IN IF job = Null THEN [k |-> "raise"]
       ELSE IF Truthy(GetNone(job.id)) THEN job.id
       ELSE IF video = Null THEN [k |-> "raise"]
       ELSE GetNone(video.jobId)

\* What the function reprompt_video of pika_agent.py returns once its POST
\* produced t.
reprompt_video(t) ==
    CASE t.kind = "exception" ->
            SubmitError("Error regenerating video", "RequestException")
      [] t.kind = "http_error" -> SubmitError("API Error", "response.text")
      [] t.kind = "not_json" ->
            SubmitError("Error regenerating video", "JSONDecodeError")
      [] OTHER ->
            LET job_id == RepromptJobId(t.body)
            IN IF job_id.k = "raise"
               THEN SubmitError("Error regenerating video", "AttributeError")
               ELSE IF Truthy(job_id)
               THEN [status |-> "pending", job_id |-> job_id,
                     message |-> Str("Video regeneration started"),
                     progress |-> Absent]
               ELSE SubmitError("Error regenerating video",
                                "Invalid API response format")

PriorOptions == [NoOptions EXCEPT !.aspectRatio = Str("16:9")]

RepromptRequests ==
    {Null} \cup
    { [promptText |-> pt, video |-> v, options |-> o] :
        pt \in {Absent, Str("A dog on a skateboard")},
        v \in {Absent, Str("u1"), Str("u2")},
        o \in {Absent, PriorOptions} }

\* the request carries a new prompt, a prior video and the prior options
CompleteReprompt(data) ==
    /\ data # Null
    /\ data.promptText # Absent /\ data.video # Absent /\ data.options # Absent

\* POST /api/reprompt-video: reprompt_video (app.py) answers a body without
\* promptText or video with HTTP 400 and otherwise evaluates
\* pika_agent.reprompt_video. The def of that name in pika_agent.py stands at
\* module level, outside class PikaWebAgent, so the attribute lookup raises
\* AttributeError, which the route answers with HTTP 500; nothing is posted.
RepromptVideo ==
    \E data \in RepromptRequests :
        LET rejected ==
                data = Null \/ data.promptText = Absent \/ data.video = Absent
        IN /\ calls < MaxCalls
           /\ UNCHANGED <<calls, inflight, observed, issued>>
           /\ last' = [op |-> "resubmit", provider |-> "pika", job |-> "none",
                       request |-> data, sent |-> Absent, answer |-> Absent,
                       result |->
                          [status |-> "error", job_id |-> Absent,
                           message |->
                              IF rejected
                              THEN Str("Missing required parameters")
                              ELSE Str("AttributeError"),
                           progress |-> Absent],
                       http |-> IF rejected THEN 400 ELSE 500]

\* pika_agent.reprompt_video(agent, new_prompt, previous_video_url,
\* previous_options), the module-level function called with an agent as its
\* first argument: one POST of the three values.
PikaRepromptVideo ==
    \E data \in { d \in RepromptRequests : CompleteReprompt(d) },
       t \in PikaSubmitAnswers :
        /\ calls < MaxCalls
        /\ calls' = calls + 1
        /\ last' = [op |-> "resubmit", provider |-> "pika", job |-> "none",
                    request |-> data, sent |-> data, answer |-> t,
                    result |-> reprompt_video(t), http |-> 0]
        /\ issued' = Issue("pika", reprompt_video(t))
        /\ UNCHANGED <<inflight, observed>>

NextResubmit ==
    \/ RepromptVideo
    \/ PikaRepromptVideo
    \/ GenerateVideoOn({[promptText |-> Str("A cat on a skateboard"),
                         model |-> Absent, pikaffect |-> Absent,
                         options |-> Absent]}, PikaSubmitAnswers)

ResubmitSpec == Init /\ [][NextResubmit]_vars

\* C13: resubmit behaves like submit: for a request with a new prompt, a
\* prior video and the prior options, whenever the provider's answer is one
\* from which submit returns a handle, resubmit returns that handle with
\* status 'pending'; and it returns an error only where submit would (on an
\* answer submit turns into an error).
C13_ResubmitLikeSubmit ==
    (last.op = "resubmit" /\ CompleteReprompt(last.request)) =>
        /\ (last.answer # Absent /\ PikaStarted(last.answer).status = "pending")
              => /\ last.result.status = "pending"
                 /\ last.result.job_id = PikaStarted(last.answer).job_id
        /\ last.result.status = "error"
              => /\ last.answer # Absent
                 /\ PikaStarted(last.answer).status = "error"

\* ============================================================= uploads
\* the step is an upload of a file whose content type is outside image/
NonImageUpload ==
    /\ last'.op = "upload"
    /\ last'.request.file # Absent
    /\ ~IsImage(last'.request.content_type)

\* C14: an upload whose content type does not begin with 'image/' is
\* rejected before any network I/O, on every path to the adapter's upload
\* operation: the step returns an error and issues no outbound call.
C14_NonImageRejectedUnsent ==
    [][NonImageUpload => (calls' = calls /\ last'.result.status = "error")]_vars

\* ============================================================= publish
\* the body of a publish request: null, or an object that may name a video
PublishRequests ==
    {Null} \cup
    { [videoUrl |-> u, status |-> Absent] :
        u \in {Absent, Str("u1"), Str("u2"), Str("u3")} }

\* what crew.kickoff() does with the upload task
Kickoffs == {"returns", "raises"}

\* POST /api/upload-youtube: upload_youtube writes data.get('videoUrl', '')
\* into the description of a Task for the YouTube agent and runs
\* crew.kickoff(); it answers with a fixed URL, or with HTTP 500 when
\* anything raised (data.get on a null body, kickoff).
UploadYoutube ==
    \E data \in PublishRequests, k \in Kickoffs :
        LET kicked == data # Null
            failed == ~kicked \/ k = "raises"
        IN /\ calls < MaxCalls
           /\ UNCHANGED <<calls, inflight, observed, issued>>
           /\ last' = [op |-> "publish", provider |-> "youtube",
                       job |-> "none", request |-> data,
                       sent |-> IF kicked THEN Get(data.videoUrl, Str(""))
                                ELSE Absent,
                       answer |-> IF kicked THEN Str(k) ELSE Absent,
                       result |->
                          IF failed
                          THEN [status |-> "error", youtubeUrl |-> Absent,
                                message |->
                                   Str(IF kicked THEN "Exception"
                                       ELSE "AttributeError")]
                          ELSE [status |-> "success",
                                youtubeUrl |->
                                   Str("https://youtube.com/watch?v=test123"),
                                message |-> Absent],
                       http |-> IF failed THEN 500 ELSE 200]

\* CrewManager.upload_to_youtube(video_url, status): the same Task and
\* kickoff, without a handler: what kickoff raises goes on to the caller.
UploadToYoutube ==
    \E u \in {Str("u1"), Str("u2"), Str("u3")}, k \in Kickoffs :
        /\ calls < MaxCalls
        /\ UNCHANGED <<calls, inflight, observed, issued>>
        /\ last' = [op |-> "publish", provider |-> "youtube", job |-> "none",
                    request |-> [videoUrl |-> u, status |-> Str("private")],
                    sent |-> u, answer |-> Str(k),
                    result |->
                       IF k = "raises"
                       THEN [status |-> "raised", youtubeUrl |-> Absent,
                             message |-> Absent]
                       ELSE [status |-> "success",
                             youtubeUrl |-> Str("kickoff result"),
                             message |-> Absent],
                    http |-> 0]

NextPublish ==
    \/ GetVideoStatus
    \/ UploadYoutube
    \/ UploadToYoutube

PublishSpec == Init /\ [][NextPublish]_vars

\* C15: the publish sink is invoked only after a completed status was
\* observed: whenever a publish hands a video URL to the sink, an earlier
\* poll has returned status 'completed' with that URL; a publish request
\* for any other URL does not reach the sink.
C15_PublishAfterCompleted ==
    (last.op = "publish" /\ last.sent # Absent) => last.sent.v \in observed

\* ==================================================== concurrent polls
\* Flask serves each request on a thread of its own, so a status request
\* can arrive while another is being served. One request is two steps: the
\* GET is issued and answered, later the response reaches the caller.
ConcurrentPollAnswers ==
    { [kind |-> "exception", code |-> 0, body |-> Absent],
      Json(PikaResult(PikaJob(Str("processing"), Absent),
                      List(<<PikaVideo(Absent, Absent, Absent, Num(50))>>))),
      Json(PikaResult(PikaJob(Str("finished"), Absent),
                      List(<<PikaVideo(Absent, Str("u1"), Absent, Num(100))>>))),
      Json(PikaResult(PikaJob(Str("failed"), Str("boom")), Absent)) }

\* get_video_status up to the return of pika_agent.check_job_status: the
\* handler takes no lock and reads no shared state, whatever else is being
\* served. The entry remembers which requests were in flight on arrival.
BeginVideoStatus(j) ==
    \E t \in ConcurrentPollAnswers :
        /\ calls < MaxCalls
        /\ calls' = calls + 1
        /\ inflight' = inflight \cup
                {[id |-> calls + 1, job |-> j,
                  during |-> {q.id : q \in inflight},
                  answer |-> t, result |-> check_job_status(j, t)]}
        /\ UNCHANGED <<last, observed, issued>>

\* the rest of get_video_status: jsonify(status) reaches the caller. Nothing
\* is stored, so what a caller sees for the handle is the response that
\* arrived last.
EndVideoStatus ==
    \E p \in inflight :
        /\ inflight' = inflight \ {p}
        /\ last' = [op |-> "poll", provider |-> "pika", job |-> p.job,
                    request |-> Num(p.id), sent |-> Absent,
                    answer |-> p.answer, result |-> p.result, http |-> 200]
        /\ observed' = Observe(p.result)
        /\ UNCHANGED <<calls, issued>>

NextConcurrent ==
    \/ \E j \in JobIds : BeginVideoStatus(j)
    \/ EndVideoStatus

ConcurrentSpec == Init /\ [][NextConcurrent]_vars

\* request p ran concurrently with the request whose response is in last
Overlapped(p) ==
    /\ last.op = "poll" /\ last.request # Absent
    /\ p.job = last.job
    /\ (p.id < last.request.v \/ last.request.v \in p.during)

\* the step delivers the response of in-flight request p
Delivers(p) ==
    /\ inflight' = inflight \ {p}
    /\ last'.op = "poll" /\ last'.request = Num(p.id)

\* C16: when two polls of one handle run concurrently and complete in
\* either order, one with a terminal status and one with a non-terminal
\* status, the status visible for the handle afterwards is the terminal one:
\* a response delivered after the terminal response of an overlapping poll
\* shows a terminal status too. And polls of different handles do not block
\* each other: while a poll of one handle is in flight, a poll of another
\* handle can start.
C16_TerminalWins ==
    /\ [][ \A p \in inflight :
              (Overlapped(p) /\ Terminal(last.result.status) /\ Delivers(p))
                 => Terminal(last'.result.status) ]_vars
    /\ [](\A j \in JobIds :
            ((\E p \in inflight : p.job # j) /\ calls < MaxCalls)
               => ENABLED BeginVideoStatus(j))

\* ====================================================== one call, no retry
\* the message embeds what the provider answered: str() of the HTTPError
\* raise_for_status built from the status line, or response.text
CarriesProviderText(message) ==
    message.k = "fmt" /\ message.arg \in {"HTTPError", "response.text"}

\* C17: every submit and every poll that reaches the provider issues
\* exactly one outbound call and never retries: the step raises the call
\* count by one, and after a non-2xx response, a malformed body or a
\* transport failure it returns an error, which for an answer the provider
\* did give carries the provider's status or body text.
C17_OneCallNoRetry ==
    [][ (last'.op \in {"submit", "poll"} /\ last'.answer # Absent) =>
          /\ calls' = calls + 1
          /\ last'.answer.kind # "json" => last'.result.status = "error"
          /\ last'.answer.kind \in {"http_error", "not_json"}
                => CarriesProviderText(last'.result.message) ]_vars

\* ============================================================ payloads
\* Requests that supply, or leave out, each optional field of a Pika submit.
PayloadPikaAnswers ==
    { [kind |-> "exception", code |-> 0, body |-> Absent],
      Json([job |-> [k |-> "obj", id |-> Str("j1")], video |-> Absent,
            jobId |-> Absent]) }

PayloadRunwayAnswers ==
    { [kind |-> "exception", code |-> 0, body |-> Absent],
      Json([taskId |-> Str("j1")]) }

Cameras ==
    { Absent,
      [k |-> "obj", pan |-> Str("left"), tilt |-> Str("up"),
       rotate |-> Str("cw"), zoom |-> Str("in")],
      [k |-> "obj", pan |-> Str("left"), tilt |-> Absent, rotate |-> Absent,
       zoom |-> Absent] }

Parameters ==
    {Absent} \cup
    { [NoParameters EXCEPT !.motion = m, !.guidanceScale = g, !.seed = sd] :
        m \in {Absent, Num(3)}, g \in {Absent, Num(7)},
        sd \in {Absent, Num(7)} }

PayloadPikaRequests ==
    { [promptText |-> Str("A cat on a skateboard"), model |-> Absent,
       pikaffect |-> fx, options |-> o] :
        fx \in {Absent, Str("Melt")},
        o \in {Absent} \cup
              { [NoOptions EXCEPT !.aspectRatio = ar, !.frameRate = fr,
                                  !.camera = c, !.parameters = pr] :
                    ar \in {Absent, Str("16:9")}, fr \in {Absent, Num(30)},
                    c \in Cameras, pr \in Parameters } }

PayloadRunwayRequests ==
    { [RunwayRequest(sec, sd, Absent, Absent) EXCEPT
            !.firstImage_assetId = a, !.lastImage_assetId = b] :
        sec \in {Absent, Num(10)}, sd \in {Absent, Num(7)},
        a \in {Absent, Str("a1")}, b \in {Absent, Str("a2")} }

NextPayload ==
    \/ GenerateVideoOn(PayloadPikaRequests, PayloadPikaAnswers)
    \/ GenerateVideoRunwayOn(PayloadRunwayRequests, PayloadRunwayAnswers)

PayloadSpec == Init /\ [][NextPayload]_vars

\* a Pika submit whose payload went out
PikaSent == last.op = "submit" /\ last.provider = "pika" /\ last.sent # Absent

\* the caller's value of an option, Absent when the request leaves it out
Supplied(option) ==
    IF last.request.options = Absent THEN Absent
    ELSE last.request.options[option]

SuppliedParameter(parameter) ==
    IF Supplied("parameters") = Absent THEN Absent
    ELSE Supplied("parameters")[parameter]

\* C18: a submit with only a prompt text transmits a default aspect ratio,
\* frame rate 24, a camera with pan, tilt, rotate and zoom all 'none',
\* motion 1 and guidance scale 12; each of these fields that the caller
\* supplies is transmitted with the caller's value instead.
C18_DefaultsUnlessSupplied ==
    PikaSent =>
        LET options == last.sent.options
        IN /\ IF Supplied("aspectRatio") = Absent
              THEN options.aspectRatio.k = "str" /\ options.aspectRatio.v # ""
              ELSE options.aspectRatio = Supplied("aspectRatio")
           /\ options.frameRate =
                 IF Supplied("frameRate") = Absent THEN Num(24)
                 ELSE Supplied("frameRate")
           /\ IF Supplied("camera") = Absent
              THEN \A axis \in {"pan", "tilt", "rotate", "zoom"} :
                      options.camera[axis] = Str("none")
              ELSE options.camera = Supplied("camera")
           /\ options.parameters.motion =
                 IF SuppliedParameter("motion") = Absent THEN Num(1)
                 ELSE SuppliedParameter("motion")
           /\ options.parameters.guidanceScale =
                 IF SuppliedParameter("guidanceScale") = Absent THEN Num(12)
                 ELSE SuppliedParameter("guidanceScale")

C18_Witness ==
    /\ PikaSent
    /\ Supplied("frameRate") = Num(30) /\ last.sent.options.frameRate = Num(30)
    /\ SuppliedParameter("guidanceScale") = Num(7)
    /\ SuppliedParameter("motion") = Absent
    /\ last.sent.options.parameters.motion = Num(1)
    /\ Supplied("camera") = Absent
    /\ last.sent.options.camera.zoom = Str("none")

\* the values of a transmitted payload, those of nested objects included
SentValues ==
    IF last.provider = "runway"
    THEN { last.sent[f] : f \in DOMAIN last.sent }
    ELSE LET options == last.sent.options
         IN {last.sent.promptText, last.sent.model, last.sent.pikaffect}
            \cup { options[f] : f \in DOMAIN options \ {"parameters"} }
            \cup { options.parameters[f] : f \in DOMAIN options.parameters }

\* C20: in every payload a submit transmits, a field the request does not
\* supply is omitted rather than sent as null: no key of the payload (seed,
\* style effect, first or last frame asset, ...) has a null value.
C20_NoNullInPayload ==
    (last.op = "submit" /\ last.sent # Absent) => Null \notin SentValues

\* ====================================================== motion controls
MotionControls == {"horizontal", "vertical", "roll", "zoom", "pan", "tilt"}

MotionValues ==
    {Absent, Null, Num(-11), Num(-10), Num(0), Num(7), Num(10), Num(11)}

MotionRequests ==
    { [RunwayRequest(Absent, Absent, z, pn) EXCEPT !.roll = r] :
        z \in MotionValues, pn \in MotionValues, r \in {Absent, Num(-30)} }

NextMotion == GenerateVideoRunwayOn(MotionRequests, PayloadRunwayAnswers)

MotionSpec == Init /\ [][NextMotion]_vars

\* C19: for every submit and every motion control the request supplies, the
\* value transmitted lies in [-10, 10]: below -10 is sent as -10, above 10
\* as 10, a value inside the range (0 included) unchanged; a control absent
\* from the request is absent from the payload.
C19_MotionClamped ==
    (last.op = "submit" /\ last.provider = "runway" /\ last.sent # Absent) =>
        \A c \in MotionControls :
            LET x == last.request[c]
                y == last.sent[c]
            IN /\ y # Absent => (y.k = "num" /\ y.v >= -10 /\ y.v <= 10)
               /\ x.k = "num" =>
                     y = Num(IF x.v < -10 THEN -10
                             ELSE IF x.v > 10 THEN 10 ELSE x.v)
               /\ x = Absent => y = Absent

C19_Witness ==
    /\ last.op = "submit" /\ last.provider = "runway" /\ last.sent # Absent
    /\ last.request.zoom = Num(-11) /\ last.sent.zoom = Num(-10)
    /\ last.request.pan = Num(0) /\ last.sent.pan = Num(0)
    /\ last.request.roll = Absent /\ last.sent.roll = Absent

\* ============================================================= routing
\* A submit through either provider followed by status requests.
PromptOnly ==
    [promptText |-> Str("A cat on a skateboard"), model |-> Absent,
     pikaffect |-> Absent, options |-> Absent]

RoutingRunwayAnswers ==
    { [kind |-> "exception", code |-> 0, body |-> Absent] } \cup
    { Json([taskId |-> Str(j)]) : j \in JobIds }

RoutingPikaAnswers ==
    { [kind |-> "exception", code |-> 0, body |-> Absent] } \cup
    { Json([job |-> [k |-> "obj", id |-> Str(j)], video |-> Absent,
            jobId |-> Absent]) : j \in JobIds }

NextRouting ==
    \/ GenerateVideoRunwayOn({RunwayRequest(Absent, Absent, Absent, Absent)},
                             RoutingRunwayAnswers)
    \/ GenerateVideoOn({PromptOnly}, RoutingPikaAnswers)
    \/ GetVideoStatusOn(ConcurrentPollAnswers)
    \/ RunwayCheckStatusOn(FaultyRunwayPollAnswers)

RoutingSpec == Init /\ [][NextRouting]_vars

\* some submit returned the handle
Issued(job) == \E provider \in {"pika", "runway"} : <<provider, job>> \in issued

\* C21: a job's status is obtained only through the adapter of the provider
\* that accepted its submission: every status request for a handle that a
\* submit through provider P returned issues its call through P's adapter,
\* never through another provider's.
C21_PolledThroughOwner ==
    (last.op = "poll" /\ Issued(last.job)) =>
        <<last.provider, last.job>> \in issued

\* =========================================================== endpoints
\* The six routes that call an adapter, each with requests the route
\* accepts and with answers that make the adapter succeed or fail.
NextEndpoint ==
    \/ GenerateVideoOn({PromptOnly}, PikaSubmitAnswers)
    \/ GenerateVideoRunwayOn({RunwayRequest(Absent, Absent, Absent, Absent)},
                             RunwaySubmitAnswers)
    \/ GetVideoStatusOn(FaultyPikaPollAnswers)
    \/ RepromptVideo
    \/ UploadRunwayAsset
    \/ GetRunwayAssets

EndpointSpec == Init /\ [][NextEndpoint]_vars

\* the last operation was served by a route (a direct call of an adapter
\* method has no HTTP response)
ThroughEndpoint == last.http # 0

\* C22: whenever an adapter operation called by an HTTP endpoint (submit,
\* runway submit, status, reprompt, asset upload, asset list) returns a
\* result with status 'error', the endpoint's response has a non-2xx status
\* code: no adapter error reaches the caller with HTTP 200.
C22_AdapterErrorNotOk ==
    (ThroughEndpoint /\ last.result.status = "error") =>
        (last.http < 200 \/ last.http > 299)

\* ===================================================== partial options
\* the caller's value of one camera axis, Absent when the request has no
\* camera or a camera without that axis
SuppliedAxis(axis) ==
    IF Supplied("camera") = Absent THEN Absent ELSE Supplied("camera")[axis]

\* the caller's value when there is one, the default otherwise
OrDefault(supplied, default) == IF supplied = Absent THEN default ELSE supplied

\* C23: whatever subset of options a generate-video request supplies (a
\* camera with only some of pan, tilt, rotate, zoom, a parameters object
\* with only some of its keys), the payload sent to Pika has a camera with
\* all four axes and parameters with motion, guidanceScale and
\* negativePrompt, each holding the caller's value when supplied and the
\* default ('none', 1, 12, '') otherwise.
C23_OptionsMergedPerKey ==
    PikaSent =>
        LET options == last.sent.options
        IN /\ \A axis \in {"pan", "tilt", "rotate", "zoom"} :
                 options.camera[axis] = OrDefault(SuppliedAxis(axis), Str("none"))
           /\ options.parameters.motion =
                 OrDefault(SuppliedParameter("motion"), Num(1))
           /\ options.parameters.guidanceScale =
                 OrDefault(SuppliedParameter("guidanceScale"), Num(12))
           /\ options.parameters.negativePrompt =
                 OrDefault(SuppliedParameter("negativePrompt"), Str(""))

Next ==
    \/ NextAsset
    \/ NextRouting
    \/ NextEndpoint
    \/ NextPayload
    \/ NextMotion
    \/ NextFault
    \/ NextResubmit
    \/ NextPublish
    \/ NextConcurrent
    \/ UploadYoutube
    \/ UploadToYoutube
    \/ RepromptVideo
    \/ PikaRepromptVideo
    \/ NextPoll
    \/ NextSubmit

Spec == Init /\ [][Next]_vars

====
